---- MODULE Spec2Model ----
(***************************************************************************)
(* Case review list generation (CaseReview_ListGenerationApp.py and its    *)
(* near-duplicate CaseReview_NotesUploadApp.py): the Clio token manager,   *)
(* the rate-limit aware request wrapper, cursor pagination and the report  *)
(* reconciliation.                                                         *)
(*                                                                         *)
(* Time.  The code reads the clock only through differences and            *)
(* comparisons of readings (now >= expires_at, time.time() - t0,           *)
(* time.time() + expires_in).  Every stored reading is therefore kept      *)
(* relative to the current instant: `now` is the origin, t0 <= 0 is the    *)
(* start of the last attempt, CLIO_EXPIRES_AT > 0 is a watermark still in  *)
(* the future and 0 stands for any watermark that is not.  One tick is     *)
(* 0.25 s, the default GLOBAL_MIN_SLEEP.                                   *)
(*                                                                         *)
(* Values.  A token is a number in 1..MaxTokens; 0 is the empty string or  *)
(* an unset variable.  An optional JSON field or header is a set with at   *)
(* most one element.                                                       *)
(***************************************************************************)
EXTENDS Integers, Sequences, FiniteSets, TLC

\* ------------------------------------------------------------------ bounds
MaxTokens == 2
MaxPages == 3
MaxMatters == 2
MaxRecords == 2
MaxRows == 2

\* ------------------------------------------------------- program constants
Second == 4
GLOBAL_MIN_SLEEP == 1
PAGE_LIMIT == 200
max_tries == 7

VARIABLES
    CLIO_CLIENT_ID,      \* BOOLEAN: set and non-empty
    CLIO_CLIENT_SECRET,  \* BOOLEAN: set and non-empty
    CLIO_REFRESH_TOKEN,
    CLIO_ACCESS_TOKEN,
    CLIO_EXPIRES_AT,
    Authorization,       \* session.headers["Authorization"]: the bearer token, 0 if none
    pc,                  \* "main", "paginate", "attempt", "returned", "raised";
                         \* "build", "built"; "upload", "split", "done", "failed"
    next_url, next_params, all_rows,   \* paginate's locals
    tries, backoff, t0, resp,          \* _request's locals
    n5xx,                \* the 5xx responses this _request call has had
    sent,                \* the last data request put on the wire
    refresh,             \* what _refresh_clio_token did in the last step
    served,              \* the 200 pages paginate has consumed in this call
    server,              \* how the two servers behave in this run: "flaky" or "steady"
    matters, ocb, billable,   \* build_report_dataframe's base pulls
    combined,            \* the merged frame, with its net balance column
    df,                  \* the frame build_report_dataframe returns
    uploads,             \* the files SharePoint holds, in upload order
    graph,               \* the methods of the Graph requests made so far
    atty,                \* split_and_upload_by_attorney's place in ATTORNEY_FOLDERS
    res                  \* status of the last upload PUT, 0 if none

report == <<matters, ocb, billable, combined, df>>
distribution == <<uploads, graph, atty, res>>

vars == <<CLIO_CLIENT_ID, CLIO_CLIENT_SECRET, CLIO_REFRESH_TOKEN, CLIO_ACCESS_TOKEN,
          CLIO_EXPIRES_AT, Authorization, pc, next_url, next_params,
          all_rows, tries, backoff, n5xx, t0, resp, sent, refresh, served, server,
          matters, ocb, billable, combined, df, uploads, graph, atty, res>>

\* ------------------------------------------------------------------ helpers
Max(a, b) == IF a >= b THEN a ELSE b
Min(a, b) == IF a <= b THEN a ELSE b
Some(s) == CHOOSE v \in s : TRUE
\* dict.get(key, default)
Get(s, default) == IF s = {} THEN default ELSE Some(s)

\* time.time()
now == 0
\* a clock reading seen dt ticks later
Later(t, dt) == t - dt
\* an expiry watermark seen dt ticks later
ExpiryLater(e, dt) == Max(e - dt, 0)

\* -------------------------------------------------------------- environment
\* A flaky server answers with any status, after any delay, with any token
\* response, and serves one-record pages; a steady one always answers at once,
\* with 200 or 404, and serves pages of every size class.
Tokens == 1..MaxTokens
\* statuses of the answers to a data request
Statuses == IF server = "flaky" THEN {200, 401, 404, 429, 500, 599} ELSE {200, 404}
\* ticks an HTTP exchange takes: faster and slower than the floor
Latency == IF server = "flaky" THEN {0, 2} ELSE {0}
\* seconds the token endpoint grants (expires_in)
ExpiresIn == {1, 2}
\* Retry-After header of a 429: an integer, or text that int() rejects
RetryAfterHeaders == {{}, {[int |-> TRUE, n |-> 5]}, {[int |-> FALSE, n |-> 0]}}
\* N of a "Retry in N" error message of a 429, when the body carries one
RetryInMessages == {{}, {40}}
\* records a page carries
PageSizes == IF server = "flaky" THEN {1} ELSE {0, 50, PAGE_LIMIT}
\* whether a page may carry an entry that is not an object
Junk == IF server = "flaky" THEN {FALSE} ELSE BOOLEAN
\* ticks a refresh POST takes
TokenLatency == {1}
\* what the token endpoint may answer to a refresh POST: a failure, or a token
\* response whose fields are each present or missing
TokenResponse(access_token, refresh_token, expires_in) ==
    [status |-> 200, access_token |-> access_token, refresh_token |-> refresh_token,
     expires_in |-> expires_in]
TokenAnswers ==
    IF server = "flaky"
    THEN {TokenResponse(a, {}, e) : a \in {{}} \cup {{x} : x \in Tokens},
                                     e \in {{}} \cup {{x} : x \in ExpiresIn}}
         \cup {TokenResponse({MaxTokens}, r, {1}) : r \in {{0}} \cup {{x} : x \in Tokens}}
         \cup {[TokenResponse({}, {}, {}) EXCEPT !.status = 400]}
    ELSE {TokenResponse({MaxTokens}, {}, {1})}

\* ------------------------------------------------------------ token manager
Credential ==
    [access_token |-> CLIO_ACCESS_TOKEN, refresh_token |-> CLIO_REFRESH_TOKEN,
     expires_at |-> CLIO_EXPIRES_AT]

NoRefresh == [called |-> FALSE, posted |-> FALSE, raised |-> FALSE, tokens |-> {}]

\* _save_tokens_env storing whatever refresh_token the response has, or none
SaveTokensDroppingRefresh(tokens, t) ==
    [access_token |-> Get(tokens.access_token, CLIO_ACCESS_TOKEN),
     refresh_token |-> Get(tokens.refresh_token, 0),
     expires_at |-> t + Get(tokens.expires_in, 0) * Second]

\* _save_tokens_env at clock reading t: the credential it leaves
_save_tokens_env(tokens, t) ==
    [access_token |-> Get(tokens.access_token, CLIO_ACCESS_TOKEN),
     refresh_token |-> IF Get(tokens.refresh_token, 0) # 0
                       THEN Some(tokens.refresh_token)
                       ELSE CLIO_REFRESH_TOKEN,
     expires_at |-> t + Get(tokens.expires_in, 0) * Second]

\* a refresh that drops the cached access token before it fails
RefreshClearingToken(ans, t, d) ==
    IF ~(CLIO_CLIENT_ID /\ CLIO_CLIENT_SECRET /\ CLIO_REFRESH_TOKEN # 0)
    THEN [cred |-> [Credential EXCEPT !.access_token = 0], raised |-> TRUE, took |-> 0,
          did |-> [called |-> TRUE, posted |-> FALSE, raised |-> TRUE, tokens |-> {}]]
    ELSE IF ans.status # 200
    THEN [cred |-> [Credential EXCEPT !.access_token = 0], raised |-> TRUE, took |-> d,
          did |-> [called |-> TRUE, posted |-> TRUE, raised |-> TRUE, tokens |-> {}]]
    ELSE [cred |-> _save_tokens_env(ans, t + d), raised |-> FALSE, took |-> d,
          did |-> [called |-> TRUE, posted |-> TRUE, raised |-> FALSE, tokens |-> {ans}]]

\* _refresh_clio_token called at clock reading t, the endpoint answering ans
\* after d ticks: the credential it leaves, whether it raised, the ticks it took
\* and what it did
_refresh_clio_token(ans, t, d) ==
    IF ~(CLIO_CLIENT_ID /\ CLIO_CLIENT_SECRET /\ CLIO_REFRESH_TOKEN # 0)
    THEN [cred |-> Credential, raised |-> TRUE, took |-> 0,
          did |-> [called |-> TRUE, posted |-> FALSE, raised |-> TRUE, tokens |-> {}]]
    ELSE IF ans.status # 200
    THEN [cred |-> Credential, raised |-> TRUE, took |-> d,
          did |-> [called |-> TRUE, posted |-> TRUE, raised |-> TRUE, tokens |-> {}]]
    ELSE [cred |-> _save_tokens_env(ans, t + d), raised |-> FALSE, took |-> d,
          did |-> [called |-> TRUE, posted |-> TRUE, raised |-> FALSE, tokens |-> {ans}]]

\* _get_clio_token comparing now > expires_at
GetTokenPastWatermark(ans, d) ==
    IF CLIO_ACCESS_TOKEN = 0 \/ now > CLIO_EXPIRES_AT
    THEN _refresh_clio_token(ans, now, d)
    ELSE [cred |-> Credential, raised |-> FALSE, took |-> 0, did |-> NoRefresh]

\* _get_clio_token: as _refresh_clio_token, or the cached credential untouched
_get_clio_token(ans, d) ==
    IF CLIO_ACCESS_TOKEN = 0 \/ now >= CLIO_EXPIRES_AT
    THEN _refresh_clio_token(ans, now, d)
    ELSE [cred |-> Credential, raised |-> FALSE, took |-> 0, did |-> NoRefresh]

\* the credential c, read dt ticks after the origin its expires_at refers to
SetCredential(c, dt) ==
    /\ CLIO_ACCESS_TOKEN' = c.access_token
    /\ CLIO_REFRESH_TOKEN' = c.refresh_token
    /\ CLIO_EXPIRES_AT' = ExpiryLater(c.expires_at, dt)

\* --------------------------------------------------------- request wrapper
\* a sleep that forgets the floor
SleepWithoutFloor(elapsed, retry_after) == retry_after

\* _sleep_with_floor: the ticks it sleeps, elapsed ticks after start_ts
_sleep_with_floor(elapsed, retry_after) ==
    LET base_wait == Max(0, GLOBAL_MIN_SLEEP - elapsed)
    IN  Max(base_wait, retry_after)

\* the 429 branch never reading the error message
RetryAfterHeaderOnly(r) ==
    IF r.retry_after # {}
    THEN IF Some(r.retry_after).int THEN Some(r.retry_after).n ELSE 30
    ELSE 30

\* the seconds the 429 branch waits
RetryAfter(r) ==
    IF r.retry_after # {}
    THEN IF Some(r.retry_after).int THEN Some(r.retry_after).n ELSE 30
    ELSE IF r.message # {} THEN Some(r.message) ELSE 30

Response(status) ==
    [status |-> status, retry_after |-> {}, message |-> {}, data |-> <<>>, next |-> {}]
NoRequest == [url |-> 0, params |-> FALSE, auth |-> 0, held |-> 0]

\* a loop that never runs out of passes
ContinueForever == "attempt"

\* a loop that raises when it runs out of passes
ContinueOrRaise == IF tries + 1 < max_tries THEN "attempt" ELSE "raised"

\* the for loop after an iteration that did not return: the next pass, or the
\* return resp that follows the loop
Continue == IF tries + 1 < max_tries THEN "attempt" ELSE "returned"

\* _request up to its loop: _ensure_auth_header, max_tries, backoff
_request ==
    /\ pc = "paginate"
    /\ \E ans \in TokenAnswers, d \in TokenLatency :
         LET g == _get_clio_token(ans, d) IN
         /\ SetCredential(g.cred, g.took)
         /\ refresh' = g.did
         /\ t0' = Later(t0, g.took)
         /\ IF g.raised
            THEN /\ pc' = "raised"
                 /\ UNCHANGED Authorization
            ELSE /\ pc' = "attempt"
                 /\ Authorization' = g.cred.access_token
         /\ tries' = 0
         /\ backoff' = 1
         /\ n5xx' = 0
    /\ UNCHANGED <<CLIO_CLIENT_ID, CLIO_CLIENT_SECRET, next_url, next_params,
                   all_rows, resp, sent, served, server>>
    /\ UNCHANGED <<report, distribution>>

\* one iteration of the loop: the request goes out, r comes back after d ticks
Attempt(r, d) ==
    /\ pc = "attempt"
    /\ tries < max_tries
    /\ sent' = [url |-> next_url, params |-> next_params, auth |-> Authorization,
                held |-> CLIO_ACCESS_TOKEN]
    /\ resp' = r
    /\ tries' = tries + 1
    /\ UNCHANGED <<CLIO_CLIENT_ID, CLIO_CLIENT_SECRET, Authorization,
                   next_url, next_params, all_rows, served, server>>
    /\ UNCHANGED <<report, distribution>>

\* a 401 branch that swallows the refresh error and goes on
After401Swallowed(f) == Continue

\* try: _refresh_clio_token() finally: _sleep_with_floor(...); continue -- the
\* refresh error, if any, leaves the call once the sleep is over
After401(f) == IF f.raised THEN "raised" ELSE Continue

Attempt401 ==
    /\ 401 \in Statuses
    /\ \E d \in Latency, ans \in TokenAnswers, d2 \in TokenLatency :
        LET f == _refresh_clio_token(ans, now + d, d2)
            elapsed == d + f.took
            total == elapsed + _sleep_with_floor(elapsed, 1 * Second)
        IN  /\ Attempt(Response(401), d)
            /\ SetCredential(f.cred, total)
            /\ refresh' = f.did
            /\ t0' = Later(now, total)
            /\ pc' = After401(f)
            /\ UNCHANGED <<backoff, n5xx>>

Attempt429 ==
    /\ 429 \in Statuses
    /\ \E d \in Latency, h \in RetryAfterHeaders, m \in RetryInMessages :
        LET r == [Response(429) EXCEPT !.retry_after = h, !.message = m]
            total == d + _sleep_with_floor(d, RetryAfter(r) * Second)
        IN  /\ Attempt(r, d)
            /\ SetCredential(Credential, total)
            /\ refresh' = NoRefresh
            /\ t0' = Later(now, total)
            /\ pc' = Continue
            /\ UNCHANGED <<backoff, n5xx>>

\* a 5xx branch that takes every 4xx it is handed as well
ServerErrorsFrom400 == {x \in Statuses : 400 <= x /\ x < 600} \ {401, 429}

\* 500 <= resp.status_code < 600
ServerErrors == {x \in Statuses : 500 <= x /\ x < 600}

\* a backoff that is never doubled
BackoffKept(b) == b

\* backoff = min(backoff * 2, 60)
NextBackoff(b) == Min(b * 2, 60)

Attempt5xx ==
    \E d \in Latency, status \in ServerErrors :
        LET total == d + _sleep_with_floor(d, backoff * Second)
        IN  /\ Attempt(Response(status), d)
            /\ SetCredential(Credential, total)
            /\ refresh' = NoRefresh
            /\ t0' = Later(now, total)
            /\ backoff' = NextBackoff(backoff)
            /\ n5xx' = n5xx + 1
            /\ pc' = Continue

\* the bodies the server may answer a GET of page url with: n entries, tagged
\* with their page and position, the first one not an object when junk, and a
\* next link or none
Entry(url, k, junk) == [page |-> url, idx |-> k, dict |-> ~(junk /\ k = 1)]
Pages(url) ==
    {[Response(200) EXCEPT !.data = [k \in 1..n |-> Entry(url, k, junk)], !.next = link] :
        n \in PageSizes, junk \in Junk,
        link \in IF url < MaxPages THEN {{}, {url + 1}} ELSE {{}}}

AttemptOther ==
    \E d \in Latency :
        \E r \in {Response(404)} \cup Pages(next_url) :
        LET total == d + _sleep_with_floor(d, 0)
        IN  /\ Attempt(r, d)
            /\ SetCredential(Credential, total)
            /\ refresh' = NoRefresh
            /\ t0' = Later(now, total)
            /\ pc' = "returned"
            /\ UNCHANGED <<backoff, n5xx>>

\* ---------------------------------------------------------------- paginate
\* isinstance(r, dict)
IsDict(r) == r.dict

\* all_rows replaced by the page instead of extended
ExtendOverwriting(rows_so_far, rows) == SelectSeq(rows, IsDict)

\* all_rows.extend([r for r in rows if isinstance(r, dict)])
Extend(rows_so_far, rows) == rows_so_far \o SelectSeq(rows, IsDict)

\* a loop that also stops at a short page
HasNextAndFull(r) == r.next # {} /\ Len(r.data) >= PAGE_LIMIT

\* if next_link: the loop goes on exactly when the page carries a next link
HasNext(r) == r.next # {}

\* paginate up to its loop
paginate ==
    /\ pc = "main"
    /\ next_url' = 1
    /\ next_params' = TRUE
    /\ all_rows' = <<>>
    /\ served' = <<>>
    /\ refresh' = NoRefresh
    /\ pc' = "paginate"
    /\ UNCHANGED <<CLIO_CLIENT_ID, CLIO_CLIENT_SECRET, CLIO_REFRESH_TOKEN,
                   CLIO_ACCESS_TOKEN, CLIO_EXPIRES_AT, Authorization,
                   tries, backoff, n5xx, t0, resp, sent, server>>
    /\ UNCHANGED <<report, distribution>>

\* a loop that takes every response for a page
FailedNever(r) == FALSE

\* if resp.status_code != 200: ... break
Failed(r) == r.status # 200

\* the loop body after _request has returned resp
Page ==
    /\ pc = "returned"
    /\ refresh' = NoRefresh
    /\ IF Failed(resp)
       THEN /\ pc' = "main"
            /\ UNCHANGED <<next_url, next_params, all_rows, served>>
       ELSE LET rows == resp.data IN
            /\ all_rows' = Extend(all_rows, rows)
            /\ served' = Append(served, [url |-> sent.url, params |-> sent.params,
                                         data |-> rows, next |-> resp.next])
            /\ IF HasNext(resp)
               THEN /\ next_url' = Some(resp.next)
                    /\ next_params' = FALSE
                    /\ pc' = "paginate"
               ELSE /\ pc' = IF Len(rows) < PAGE_LIMIT THEN "main" ELSE "main"
                    /\ UNCHANGED <<next_url, next_params>>
    /\ UNCHANGED <<CLIO_CLIENT_ID, CLIO_CLIENT_SECRET, CLIO_REFRESH_TOKEN,
                   CLIO_ACCESS_TOKEN, CLIO_EXPIRES_AT, Authorization,
                   tries, backoff, n5xx, t0, resp, sent, server>>
    /\ UNCHANGED <<report, distribution>>

\* ------------------------------------------------------------ specification
Init ==
    /\ server \in {"flaky", "steady"}
    /\ CLIO_CLIENT_ID \in BOOLEAN
    /\ CLIO_CLIENT_SECRET \in BOOLEAN
    /\ CLIO_REFRESH_TOKEN \in {0, 1}
    /\ CLIO_ACCESS_TOKEN \in {0, 1}
    /\ CLIO_EXPIRES_AT \in {0} \cup {e * Second : e \in ExpiresIn}
    /\ Authorization = 0
    /\ pc = "main"
    /\ next_url = 0
    /\ next_params = FALSE
    /\ all_rows = <<>>
    /\ tries = 0
    /\ n5xx = 0
    /\ backoff = 1
    /\ t0 = 0
    /\ resp = Response(0)
    /\ sent = NoRequest
    /\ refresh = NoRefresh
    /\ served = <<>>
    /\ matters = <<>> /\ ocb = <<>> /\ billable = <<>>
    /\ combined = <<>> /\ df = <<>>
    /\ uploads = <<>> /\ graph = {} /\ atty = 0 /\ res = 0

Next ==
    \/ paginate
    \/ _request
    \/ Attempt401
    \/ Attempt429
    \/ Attempt5xx
    \/ AttemptOther
    \/ Page

Spec == Init /\ [][Next]_vars

\* --------------------------------------------------- build_report_dataframe
\* The frames are sequences of records.  A key that is None is 0; amounts are
\* whole dollars.  The fetched matters carry their position as display_number.
SeqsUpTo(S, n) == UNION {[1..k -> S] : k \in 0..n}
MatterIds == {0, 1, 2}
ClientIds == {0, 1}
AccountBalances == {<<>>, <<200, 300>>}
MatterRecords ==
    [id : MatterIds, client : ClientIds, display_number : 1..MaxMatters,
     account_balances : AccountBalances]
ClientBalanceRecords == [contact : ClientIds, total_outstanding_balance : {0, 400}]
BillableRecords == [id : MatterIds, unbilled_amount : {0, 100, 300}]

\* trust += float(b.get("balance", 0) or 0) over the matter's account_balances
RECURSIVE Trust(_)
Trust(balances) ==
    IF balances = <<>> THEN 0 ELSE Head(balances) + Trust(Tail(balances))

\* m_rows / ocb_rows / b_rows: the columns each frame is built with
matter_df(ms) ==
    [k \in 1..Len(ms) |->
        [Matter_ID |-> ms[k].id, Matter_Number |-> ms[k].display_number,
         Client_ID |-> ms[k].client,
         Trust_Account_Balance |-> Trust(ms[k].account_balances)]]
ocb_df(rs) ==
    [k \in 1..Len(rs) |->
        [Client_ID |-> rs[k].contact,
         Outstanding_Balance |-> rs[k].total_outstanding_balance]]
billable_df(bs) ==
    [k \in 1..Len(bs) |->
        [Matter_ID |-> bs[k].id, Unbilled_Amount |-> bs[k].unbilled_amount]]

\* a merge that keeps only the left rows that have a match (how="inner")
RECURSIVE MergeInner(_, _, _, _)
MergeInner(left, right, key, filled) ==
    IF left = <<>> THEN <<>>
    ELSE LET l == Head(left)
             hits == SelectSeq(right, LAMBDA r : r[key] = l[key])
         IN  [i \in 1..Len(hits) |-> l @@ hits[i]]
                 \o MergeInner(Tail(left), right, key, filled)

\* left.merge(right, on=key, how="left") followed by fillna(0.0) on the right's
\* columns: a left row is paired with every right row of the same key, in the
\* right's order, and stays alone, zero-filled, when there is none; None keys
\* match each other like any other value.
RECURSIVE merge(_, _, _, _)
merge(left, right, key, filled) ==
    IF left = <<>> THEN <<>>
    ELSE LET l == Head(left)
             hits == SelectSeq(right, LAMBDA r : r[key] = l[key])
             out == IF hits = <<>> THEN <<l @@ filled>>
                    ELSE [i \in 1..Len(hits) |-> l @@ hits[i]]
         IN  out \o merge(Tail(left), right, key, filled)

\* a net balance that forgets the outstanding balance
NetTrustLessUnbilled(r) ==
    r @@ [Net_Trust_Account_Balance |-> r.Trust_Account_Balance - r.Unbilled_Amount]

\* combined["Net Trust Account Balance"] = trust - outstanding - unbilled
NetTrust(r) ==
    r @@ [Net_Trust_Account_Balance |->
              r.Trust_Account_Balance - r.Outstanding_Balance - r.Unbilled_Amount]

\* the output row built from a row of combined
Row(r) ==
    [Matter_Number |-> r.Matter_Number,
     Net_Trust_Account_Balance |-> r.Net_Trust_Account_Balance]

\* a placement that puts a row before the rows of equal net balance
InsertRowBeforeTies(sorted, r) ==
    LET n == Cardinality({i \in 1..Len(sorted) :
                 sorted[i].Net_Trust_Account_Balance > r.Net_Trust_Account_Balance})
    IN  SubSeq(sorted, 1, n) \o <<r>> \o SubSeq(sorted, n + 1, Len(sorted))

\* sort_values(by="Net Trust Account Balance", ascending=False, kind="mergesort")
InsertRow(sorted, r) ==
    LET n == Cardinality({i \in 1..Len(sorted) :
                 sorted[i].Net_Trust_Account_Balance >= r.Net_Trust_Account_Balance})
    IN  SubSeq(sorted, 1, n) \o <<r>> \o SubSeq(sorted, n + 1, Len(sorted))
RECURSIVE sort_values(_)
sort_values(rows) ==
    IF rows = <<>> THEN <<>>
    ELSE InsertRow(sort_values(SubSeq(rows, 1, Len(rows) - 1)), rows[Len(rows)])

build_report_dataframe ==
    /\ pc = "build"
    /\ LET merged ==
               merge(merge(matter_df(matters), ocb_df(ocb), "Client_ID",
                           [Outstanding_Balance |-> 0]),
                     billable_df(billable), "Matter_ID", [Unbilled_Amount |-> 0])
       IN  combined' = [i \in 1..Len(merged) |-> NetTrust(merged[i])]
    /\ df' = sort_values([i \in 1..Len(combined') |-> Row(combined'[i])])
    /\ pc' = "built"
    /\ UNCHANGED <<CLIO_CLIENT_ID, CLIO_CLIENT_SECRET, CLIO_REFRESH_TOKEN,
                   CLIO_ACCESS_TOKEN, CLIO_EXPIRES_AT, Authorization, next_url,
                   next_params, all_rows, tries, backoff, n5xx, t0, resp, sent,
                   refresh,
                   served, server, matters, ocb, billable>>
    /\ UNCHANGED distribution

\* the pulls have returned: any matters with distinct display numbers, any
\* client-balance and billable records
InitReport ==
    /\ pc = "build"
    /\ matters \in {ms \in SeqsUpTo(MatterRecords, MaxMatters) :
                       \A k \in 1..Len(ms) : ms[k].display_number = k}
    /\ ocb \in SeqsUpTo(ClientBalanceRecords, MaxRecords)
    /\ billable \in SeqsUpTo(BillableRecords, MaxRecords)
    /\ combined = <<>> /\ df = <<>>
    /\ server = "steady"
    /\ CLIO_CLIENT_ID = TRUE /\ CLIO_CLIENT_SECRET = TRUE
    /\ CLIO_REFRESH_TOKEN = 1 /\ CLIO_ACCESS_TOKEN = 1 /\ CLIO_EXPIRES_AT = 0
    /\ Authorization = 1
    /\ next_url = 0 /\ next_params = FALSE /\ all_rows = <<>>
    /\ tries = 0 /\ backoff = 1 /\ n5xx = 0 /\ t0 = 0
    /\ resp = Response(0) /\ sent = NoRequest /\ refresh = NoRefresh
    /\ served = <<>>
    /\ uploads = <<>> /\ graph = {} /\ atty = 0 /\ res = 0

NextReport == build_report_dataframe

SpecReport == InitReport /\ [][NextReport]_vars

\* ----------------------------------- main / split_and_upload_by_attorney
\* A Responsible Attorney value is a text: a person's two names written
\* "Last, First" (comma) or "First Last", with or without surrounding
\* whitespace (padded).  Two texts are the same string exactly when the four
\* parts agree.  NoName is the empty string.
Name(last, first, comma, padded) ==
    [last |-> last, first |-> first, comma |-> comma, padded |-> padded]
NoName == Name("", "", FALSE, FALSE)
ATTORNEY_FOLDERS ==
    << Name("Voorhees", "Elizabeth", TRUE, FALSE), Name("Darling", "Craig", TRUE, FALSE),
       Name("Huang", "Lily", TRUE, FALSE), Name("Parker", "Gabriella", TRUE, FALSE) >>
People == {<<"Darling", "Craig">>, <<"Voorhees", "Elizabeth">>, <<"Smith", "John">>}
Owners ==
    {Name(p[1], p[2], c, w) : p \in People, c \in BOOLEAN, w \in BOOLEAN} \cup {NoName}

\* (s or "").strip()
_clean_attorney(s) == [s EXCEPT !.padded = FALSE]

\* what the Graph side may answer
GraphTokens == BOOLEAN            \* acquire_token_for_client gives an access_token
FolderExists == BOOLEAN           \* the GET of the folder path is no 404
CreateStatuses == {201, 403}      \* the POST that creates a missing folder
PutStatuses == {200, 201, 403, 500}

File(kind, name, rows) == [kind |-> kind, atty |-> name, rows |-> rows]

\* an upload_file that does not look at the PUT's status
UploadUnchecked(file, tok, exists, create, status) ==
    IF ~tok THEN [raised |-> TRUE, methods |-> {}, stored |-> <<>>, res |-> 0]
    ELSE IF ~exists /\ create >= 400
    THEN [raised |-> TRUE, methods |-> {"GET", "POST"}, stored |-> <<>>, res |-> 0]
    ELSE [raised |-> FALSE,
          methods |-> {"GET", "PUT"} \cup (IF exists THEN {} ELSE {"POST"}),
          stored |-> IF status \in {200, 201} THEN <<file>> ELSE <<>>,
          res |-> status]

\* upload_file: the Graph token, ensure_folder, the PUT of the content; what it
\* requested, what the drive stored, whether it raised
upload_file(file, tok, exists, create, status) ==
    IF ~tok THEN [raised |-> TRUE, methods |-> {}, stored |-> <<>>, res |-> 0]
    ELSE IF ~exists /\ create >= 400
    THEN [raised |-> TRUE, methods |-> {"GET", "POST"}, stored |-> <<>>, res |-> 0]
    ELSE [raised |-> status \notin {200, 201},
          methods |-> {"GET", "PUT"} \cup (IF exists THEN {} ELSE {"POST"}),
          stored |-> IF status \in {200, 201} THEN <<file>> ELSE <<>>,
          res |-> status]

Upload(u) ==
    /\ uploads' = uploads \o u.stored
    /\ graph' = graph \cup u.methods
    /\ res' = u.res

\* df.copy() with the Responsible Attorney column mapped through _clean_attorney
Cleaned(frame) ==
    [i \in 1..Len(frame) |->
        [frame[i] EXCEPT !.Responsible_Attorney = _clean_attorney(@)]]
\* df[df["Responsible Attorney"] == atty]
RowsOfAttorney(frame, name) ==
    SelectSeq(frame, LAMBDA r : r.Responsible_Attorney = name)

clio ==
    <<CLIO_CLIENT_ID, CLIO_CLIENT_SECRET, CLIO_REFRESH_TOKEN, CLIO_ACCESS_TOKEN,
      CLIO_EXPIRES_AT, Authorization, next_url, next_params, all_rows, tries,
      backoff, n5xx, t0, resp, sent, refresh, served, server>>

\* main: the master file goes first; an exception ends the run
main ==
    /\ pc = "upload"
    /\ \E tok \in GraphTokens, exists \in FolderExists,
          create \in CreateStatuses, status \in PutStatuses :
         LET u == upload_file(File("master", NoName, df), tok, exists, create, status)
         IN  /\ Upload(u)
             /\ pc' = IF u.raised THEN "failed" ELSE "split"
             /\ atty' = IF u.raised THEN atty ELSE 1
    /\ UNCHANGED <<clio, matters, ocb, billable, combined, df>>

\* one pass of the loop over ATTORNEY_FOLDERS
split_and_upload_by_attorney ==
    /\ pc = "split"
    /\ LET name == ATTORNEY_FOLDERS[atty]
           atty_df == RowsOfAttorney(Cleaned(df), name)
           after == IF atty < Len(ATTORNEY_FOLDERS) THEN "split" ELSE "done"
       IN  IF atty_df = <<>>
           THEN /\ pc' = after
                /\ atty' = atty + 1
                /\ UNCHANGED <<uploads, graph, res>>
           ELSE \E tok \in GraphTokens, exists \in FolderExists,
                   create \in CreateStatuses, status \in PutStatuses :
                  LET u == upload_file(File("split", name, atty_df),
                                       tok, exists, create, status)
                  IN  /\ Upload(u)
                      /\ pc' = IF u.raised THEN "failed" ELSE after
                      /\ atty' = IF u.raised THEN atty ELSE atty + 1
    /\ UNCHANGED <<clio, matters, ocb, billable, combined, df>>

\* the report is built: any rows, their matter numbers in order
InitDistribute ==
    /\ pc = "upload"
    /\ df \in {f \in SeqsUpTo([Matter_Number : 1..MaxRows, Responsible_Attorney : Owners],
                              MaxRows) :
                  \A k \in 1..Len(f) : f[k].Matter_Number = k}
    /\ uploads = <<>> /\ graph = {} /\ atty = 0 /\ res = 0
    /\ matters = <<>> /\ ocb = <<>> /\ billable = <<>> /\ combined = <<>>
    /\ server = "steady"
    /\ CLIO_CLIENT_ID = TRUE /\ CLIO_CLIENT_SECRET = TRUE
    /\ CLIO_REFRESH_TOKEN = 1 /\ CLIO_ACCESS_TOKEN = 1 /\ CLIO_EXPIRES_AT = 0
    /\ Authorization = 1
    /\ next_url = 0 /\ next_params = FALSE /\ all_rows = <<>>
    /\ tries = 0 /\ backoff = 1 /\ n5xx = 0 /\ t0 = 0
    /\ resp = Response(0) /\ sent = NoRequest /\ refresh = NoRefresh
    /\ served = <<>>

NextDistribute == main \/ split_and_upload_by_attorney

SpecDistribute == InitDistribute /\ [][NextDistribute]_vars

\* ------------------------------------------------------------------- claims
CredentialsPresent == CLIO_CLIENT_ID /\ CLIO_CLIENT_SECRET /\ CLIO_REFRESH_TOKEN # 0
IsRetryable(status) == status \in {401, 429} \/ (500 <= status /\ status < 600)
InRequest == pc \in {"attempt", "returned", "raised"}
LastServed == served[Len(served)]

\* C1: every attempt of a request call, the retry after a 401-forced refresh
\* included, goes out with the access token the token manager holds at that
\* moment in its Authorization header.
C1_AttemptCarriesHeldToken == sent # NoRequest => sent.auth = sent.held

\* C2: a request call makes at most max_tries attempts, whatever the server
\* answers, and is over once it has made them.
C2_AtMostMaxTries == tries <= max_tries /\ (pc = "attempt" => tries < max_tries)
C2_Witness == pc = "returned" /\ tries = max_tries /\ IsRetryable(resp.status)

\* C3 as claimed: when all max_tries attempts got a retryable status the call
\* returns the last response and raises nothing.
C3_Original ==
    (InRequest /\ tries = max_tries /\ IsRetryable(resp.status)) => pc = "returned"
\* C3 as amended: when all max_tries attempts got a retryable status the call
\* returns the last response, unless the last status is a 401 whose forced token
\* refresh fails: then, and only then, it raises the refresh error.
C3_ReturnsLastResponse ==
    (InRequest /\ tries = max_tries /\ IsRetryable(resp.status))
        => IF resp.status = 401 /\ refresh.raised THEN pc = "raised" ELSE pc = "returned"
C3_Witness == pc = "returned" /\ tries = max_tries /\ resp.status = 401

\* The wait of C4 as claimed: the header's integer if there is one, else the N
\* of the message, else 30.
ClaimedRetryAfter(r) ==
    IF r.retry_after # {} /\ Some(r.retry_after).int THEN Some(r.retry_after).n
    ELSE IF r.message # {} THEN Some(r.message)
    ELSE 30
\* The wait of C4 as amended: a header that is present decides alone, its
\* integer or 30 when it is no integer; the message counts only without header.
AmendedRetryAfter(r) ==
    IF r.retry_after # {}
    THEN IF Some(r.retry_after).int THEN Some(r.retry_after).n ELSE 30
    ELSE IF r.message # {} THEN Some(r.message) ELSE 30
\* C4 as claimed: after a 429 the next attempt starts no earlier than R seconds
\* after the 429 attempt started, R the header's integer, else the message's N,
\* else 30.
C4_Original == resp.status = 429 => now - t0 >= ClaimedRetryAfter(resp) * Second
\* C4 as amended: the same with R = 30 whenever a Retry-After header is present
\* but is no integer, the message being read only when there is no header.
C4_WaitsRetryAfter == resp.status = 429 => now - t0 >= AmendedRetryAfter(resp) * Second
C4_Witness ==
    /\ pc = "attempt"
    /\ resp.status = 429
    /\ resp.retry_after = {[int |-> TRUE, n |-> 5]}
    /\ now - t0 >= 5 * Second

\* get_token answering from the cache: no call, the cached token returned
C5_Cached ==
    /\ pc' = "attempt"
    /\ ~refresh'.called
    /\ Authorization' = CLIO_ACCESS_TOKEN
    /\ CLIO_ACCESS_TOKEN' = CLIO_ACCESS_TOKEN
\* get_token after one refresh call: the issued token stored and returned,
\* expires_at = now + expires_in
C5_Refreshed ==
    /\ pc' = "attempt"
    /\ refresh'.posted
    /\ refresh'.tokens # {}
    /\ Some(refresh'.tokens).access_token # {}
         => CLIO_ACCESS_TOKEN' = Some(Some(refresh'.tokens).access_token)
    /\ Some(refresh'.tokens).expires_in # {}
         => CLIO_EXPIRES_AT' = now + Some(Some(refresh'.tokens).expires_in) * Second
    /\ Authorization' = CLIO_ACCESS_TOKEN'
\* C5 as claimed: get_token returns the cached token without a call when one is
\* cached and now < expires_at; otherwise it makes one refresh call, stores the
\* issued token, sets expires_at and returns the new token.
C5_Original ==
    [][pc = "paginate" =>
         IF CLIO_ACCESS_TOKEN # 0 /\ now < CLIO_EXPIRES_AT THEN C5_Cached ELSE C5_Refreshed]_vars
\* C5 as amended: the same, except that the refresh may fail: without the three
\* credentials get_token raises and makes no call, and when the endpoint answers
\* anything but 200 it raises after its one call.
C5_GetToken ==
    [][pc = "paginate" =>
         IF CLIO_ACCESS_TOKEN # 0 /\ now < CLIO_EXPIRES_AT THEN C5_Cached
         ELSE IF ~CredentialsPresent THEN pc' = "raised" /\ ~refresh'.posted
         ELSE IF refresh'.tokens = {} THEN pc' = "raised" /\ refresh'.posted
         ELSE C5_Refreshed]_vars
C5_Witness ==
    /\ pc = "attempt" /\ tries = 0
    /\ refresh.posted /\ refresh.tokens # {}
    /\ Some(refresh.tokens).access_token = {CLIO_ACCESS_TOKEN}
    /\ Authorization = CLIO_ACCESS_TOKEN
    /\ CLIO_EXPIRES_AT = now + 1 * Second

\* C6: whenever client id, client secret and refresh token are not all there,
\* get_token fails and the run sends no data request.
C6_NoRequestWithoutCredentials ==
    ~CredentialsPresent => pc \notin {"attempt", "returned"} /\ sent = NoRequest

\* C7: the stored refresh token changes only in a successful refresh whose
\* response carries a non-empty refresh token, and then becomes that token; a
\* response without one leaves it as it was.
C7_RefreshTokenKept ==
    [][CLIO_REFRESH_TOKEN' =
         IF refresh'.tokens # {} /\ Get(Some(refresh'.tokens).refresh_token, 0) # 0
         THEN Some(Some(refresh'.tokens).refresh_token)
         ELSE CLIO_REFRESH_TOKEN]_vars
C7_Witness ==
    /\ refresh.tokens # {}
    /\ Some(refresh.tokens).refresh_token = {CLIO_REFRESH_TOKEN}
    /\ CLIO_REFRESH_TOKEN > 1

\* C8 as claimed: the loop ends as soon as a page has no next link or has fewer
\* records than the limit; no page is requested after either.
C8_Original ==
    (served # <<>> /\ (LastServed.next = {} \/ Len(LastServed.data) < PAGE_LIMIT))
        => pc = "main"
\* C8 as amended: the loop ends as soon as a page has no next link, whatever its
\* size; a page with a next link, short or not, never ends it: the link is
\* requested, and only a response other than 200 to that request ends the loop.
C8_EndsWithoutNextLink ==
    served # <<>> =>
        /\ LastServed.next = {} => pc = "main"
        /\ (LastServed.next # {} /\ pc = "main") => resp.status # 200
        /\ (LastServed.next # {} /\ pc # "main") => {next_url} = LastServed.next
C8_Witness ==
    /\ pc = "attempt"
    /\ served # <<>>
    /\ Len(LastServed.data) < PAGE_LIMIT
    /\ sent.url = Some(LastServed.next)

\* the objects of the pages, in page order and in-page order
RECURSIVE DictRows(_)
DictRows(pages) ==
    IF pages = <<>> THEN <<>>
    ELSE DictRows(SubSeq(pages, 1, Len(pages) - 1))
             \o SelectSeq(pages[Len(pages)].data, IsDict)
\* C9: paginate fetches page 1 with the params, then each next link verbatim and
\* without params, each page once, and its rows are the objects of those pages
\* in page order and in-page order, nothing else, nothing twice.
C9_Concatenation ==
    /\ all_rows = DictRows(served)
    /\ \A i \in 1..Len(served) :
         /\ served[i].url = i
         /\ served[i].params = (i = 1)
         /\ i > 1 => served[i - 1].next = {served[i].url}
    /\ \A i \in 1..(Len(all_rows) - 1) :
         \/ all_rows[i].page < all_rows[i + 1].page
         \/ all_rows[i].page = all_rows[i + 1].page /\ all_rows[i].idx < all_rows[i + 1].idx
C9_Witness ==
    /\ pc = "main"
    /\ Len(served) = 3
    /\ Len(served[1].data) = 200 /\ Len(served[2].data) = 200 /\ Len(served[3].data) = 50
    /\ Len(all_rows) = 450
\* C10: every matter the fetcher returned gives exactly one row of the frame
\* build_report_dataframe returns, whatever the client-balance and billable
\* records are: as many rows as matters, none dropped, none twice.
C10_OneRowPerMatter ==
    pc = "built" =>
        /\ Len(df) = Len(matters)
        /\ \A k \in 1..Len(matters) :
             Cardinality({i \in 1..Len(df) : df[i].Matter_Number = k}) = 1

\* the amounts the records of a frame carry for a key that is present: a
\* missing key (0) is no id and matches nothing
Outstanding(client) ==
    {ocb[i].total_outstanding_balance :
        i \in {j \in 1..Len(ocb) : client # 0 /\ ocb[j].contact = client}}
Unbilled(id) ==
    {billable[i].unbilled_amount :
        i \in {j \in 1..Len(billable) : id # 0 /\ billable[j].id = id}}
OrZero(amounts) == IF amounts = {} THEN {0} ELSE amounts

\* C11: every row's Net Trust Account Balance is its matter's trust balance
\* (the sum of its account balances) minus the outstanding balance of a
\* client-balance record with the matter's client id (0 if there is none) minus
\* the unbilled amount of a billable record with the matter's id (0 if none).
C11_NetBalance ==
    pc = "built" =>
        \A i \in 1..Len(df) :
            LET m == matters[df[i].Matter_Number]
            IN  \E o \in OrZero(Outstanding(m.client)), u \in OrZero(Unbilled(m.id)) :
                    df[i].Net_Trust_Account_Balance = Trust(m.account_balances) - o - u

\* a client for C12 and C13: one client-balance record j, with a contact id,
\* an outstanding balance > 0 and at least one case
IsClient(j) ==
    /\ ocb[j].contact # 0
    /\ ocb[j].total_outstanding_balance > 0
    /\ \A k \in 1..Len(ocb) : ocb[k].contact = ocb[j].contact => k = j
    /\ \E k \in 1..Len(matters) : matters[k].client = ocb[j].contact
\* the rows of combined that belong to the cases of the client of record j
RowsOf(j) == {i \in 1..Len(combined) : combined[i].Client_ID = ocb[j].contact}
RECURSIVE SumOver(_, _)
SumOver(rows, column) ==
    IF rows = {} THEN 0
    ELSE LET i == CHOOSE x \in rows : TRUE
         IN  combined[i][column] + SumOver(rows \ {i}, column)

\* C12 as claimed: for every client with at least one case and an outstanding
\* balance > 0, the outstanding amounts subtracted from its cases sum to the
\* client's outstanding balance.
C12_Original ==
    pc = "built" =>
        \A j \in 1..Len(ocb) : IsClient(j) =>
            SumOver(RowsOf(j), "Outstanding_Balance") = ocb[j].total_outstanding_balance
\* C12 as amended: nothing is split between the cases; every case of the client
\* has a row, and the amounts subtracted over the client's rows sum to the
\* client's outstanding balance times the number of those rows.
C12_SumIsPerRow ==
    pc = "built" =>
        \A j \in 1..Len(ocb) : IsClient(j) =>
            /\ \A k \in 1..Len(matters) : matters[k].client = ocb[j].contact =>
                   \E i \in RowsOf(j) : combined[i].Matter_Number = k
            /\ SumOver(RowsOf(j), "Outstanding_Balance")
                   = ocb[j].total_outstanding_balance * Cardinality(RowsOf(j))
C12_Witness ==
    /\ pc = "built"
    /\ \E j \in 1..Len(ocb) :
         /\ IsClient(j)
         /\ Cardinality(RowsOf(j)) = 2
         /\ SumOver(RowsOf(j), "Outstanding_Balance") = 2 * ocb[j].total_outstanding_balance

\* C13 as claimed: the outstanding amount subtracted from a case of a client is
\* outstanding_balance * weight, the weight being the case's unbilled amount
\* over the sum of the unbilled amounts of the client's cases when that sum is
\* > 0, else 1 / case count (stated without division).
C13_Original ==
    pc = "built" =>
        \A j \in 1..Len(ocb) : IsClient(j) =>
            LET total == SumOver(RowsOf(j), "Unbilled_Amount")
            IN  \A i \in RowsOf(j) :
                    IF total > 0
                    THEN combined[i].Outstanding_Balance * total
                             = ocb[j].total_outstanding_balance * combined[i].Unbilled_Amount
                    ELSE combined[i].Outstanding_Balance * Cardinality(RowsOf(j))
                             = ocb[j].total_outstanding_balance
\* C13 as amended: the outstanding amount subtracted from every case of a client
\* is the client's whole outstanding balance, whatever the unbilled amounts and
\* the number of cases: net = trust - outstanding_balance - unbilled.
C13_WholeBalancePerCase ==
    pc = "built" =>
        \A j \in 1..Len(ocb) : IsClient(j) =>
            \A i \in RowsOf(j) :
                /\ combined[i].Outstanding_Balance = ocb[j].total_outstanding_balance
                /\ combined[i].Net_Trust_Account_Balance =
                       combined[i].Trust_Account_Balance
                           - ocb[j].total_outstanding_balance - combined[i].Unbilled_Amount
                /\ \E n \in 1..Len(df) : df[n] = Row(combined[i])
C13_Witness ==
    /\ pc = "built"
    /\ Len(combined) = 2
    /\ ocb = <<[contact |-> 1, total_outstanding_balance |-> 400]>>
    /\ combined[1].Client_ID = 1 /\ combined[2].Client_ID = 1
    /\ combined[1].Unbilled_Amount = 100 /\ combined[2].Unbilled_Amount = 300
    /\ combined[1].Outstanding_Balance = 400 /\ combined[2].Outstanding_Balance = 400

\* C14: the returned rows are in descending order of net balance, and rows of
\* equal net balance are in the order in which the fetcher returned their
\* matters; sorting loses and adds no row.
C14_SortedStable ==
    pc = "built" =>
        /\ Len(df) = Len(combined)
        /\ \A i \in 1..Len(combined) :
             Cardinality({n \in 1..Len(df) : df[n] = Row(combined[i])})
                 = Cardinality({n \in 1..Len(combined) : Row(combined[n]) = Row(combined[i])})
        /\ \A i, j \in 1..Len(df) : i < j =>
             /\ df[i].Net_Trust_Account_Balance >= df[j].Net_Trust_Account_Balance
             /\ df[i].Net_Trust_Account_Balance = df[j].Net_Trust_Account_Balance
                    => df[i].Matter_Number <= df[j].Matter_Number
C14_Witness ==
    /\ pc = "built"
    /\ Len(df) = 3
    /\ df[1].Matter_Number = 2
    /\ df[2].Matter_Number = 1 /\ df[3].Matter_Number = 2
    /\ df[2].Net_Trust_Account_Balance = df[3].Net_Trust_Account_Balance
    /\ df[1].Net_Trust_Account_Balance > df[2].Net_Trust_Account_Balance

\* the per-owner files uploaded so far, and those that hold row k of df
SplitFiles == {n \in 1..Len(uploads) : uploads[n].kind = "split"}
FilesWithRow(k) ==
    {n \in SplitFiles :
        \E i \in 1..Len(uploads[n].rows) : uploads[n].rows[i].Matter_Number = k}
SamePerson(a, b) == a.last = b.last /\ a.first = b.first
InFolders(a) == \E n \in 1..Len(ATTORNEY_FOLDERS) : SamePerson(a, ATTORNEY_FOLDERS[n])

\* C15: rows whose owner is one person, written "Last, First" in some and
\* "First Last" in others, get the same partition key and land in the same
\* per-owner file (here for the persons that have a folder; every upload
\* succeeded).
C15_BothNameForms ==
    pc = "done" =>
        \A i, j \in 1..Len(df) :
            (/\ InFolders(df[i].Responsible_Attorney)
             /\ SamePerson(df[i].Responsible_Attorney, df[j].Responsible_Attorney))
                => /\ Cardinality(FilesWithRow(i)) = 1
                   /\ FilesWithRow(i) = FilesWithRow(j)

\* C16: when every upload succeeds there is one master file with all rows and,
\* for every distinct owner value in the rows, exactly one per-owner file with
\* exactly that owner's rows: every row is in exactly one per-owner file.
C16_OneFilePerOwner ==
    pc = "done" =>
        /\ Cardinality({n \in 1..Len(uploads) :
               uploads[n].kind = "master" /\ uploads[n].rows = df}) = 1
        /\ \A k \in 1..Len(df) :
             LET owner == Cleaned(df)[k].Responsible_Attorney
             IN  /\ Cardinality(FilesWithRow(k)) = 1
                 /\ \A n \in FilesWithRow(k) :
                      uploads[n].rows = RowsOfAttorney(Cleaned(df), owner)

\* C17: an upload that returns a status other than 200 / 201 is raised and ends
\* the run at that file: nothing is requested afterwards; the files uploaded
\* before stay as they are, and no DELETE is ever requested.
C17_UploadErrorAborts ==
    /\ [](/\ (res # 0 /\ res \notin {200, 201}) => pc = "failed"
          /\ "DELETE" \notin graph)
    /\ [][/\ pc # "failed"
          /\ Len(uploads') >= Len(uploads)
          /\ SubSeq(uploads', 1, Len(uploads)) = uploads]_vars
C17_Witness ==
    /\ pc = "failed"
    /\ res = 500
    /\ Len(uploads) = 2
    /\ uploads[1].kind = "master" /\ uploads[2].kind = "split"

\* the response in resp is that of an attempt of the call in progress or just
\* ended
InCall == pc \in {"attempt", "returned", "raised"} /\ tries >= 1

\* C18: within one call the wait after its k-th 5xx response is at least
\* min(2^(k-1), 60) seconds: the backoff starts at 1 s, doubles after each 5xx
\* and never exceeds 60 s.
C18_Backoff ==
    /\ backoff = Min(2 ^ n5xx, 60)
    /\ (InCall /\ 500 <= resp.status /\ resp.status < 600)
           => now - t0 >= Min(2 ^ (n5xx - 1), 60) * Second
C18_Witness ==
    /\ pc = "returned"
    /\ n5xx = max_tries
    /\ backoff = 60
    /\ now - t0 >= 60 * Second

\* C19: at least GLOBAL_MIN_SLEEP passes between the starts of two consecutive
\* attempts, whether of one call or the last of a call and the first of the
\* next: once an attempt is made, nothing happens before the floor has passed
\* since its start, nor before the wait its status requires (1 s after a 401,
\* the backoff after a 5xx).
C19_Floor ==
    sent # NoRequest =>
        /\ now - t0 >= GLOBAL_MIN_SLEEP
        /\ (InCall /\ resp.status = 401) => now - t0 >= Max(GLOBAL_MIN_SLEEP, 1 * Second)
        /\ (InCall /\ resp.status \in ServerErrors)
               => now - t0 >= Max(GLOBAL_MIN_SLEEP, 1 * Second)
C19_Witness ==
    /\ pc = "attempt"
    /\ tries = 0
    /\ sent # NoRequest
    /\ now - t0 = GLOBAL_MIN_SLEEP

\* C20: a response whose status is not 401, 429 or 5xx ends the call at that
\* attempt: it is returned, and the call makes no further attempt and no token
\* refresh.
C20_OtherStatusReturns ==
    /\ []((InCall /\ ~IsRetryable(resp.status)) => (pc = "returned" /\ ~refresh.called))
    /\ [][pc = "returned" => (sent' = sent /\ tries' = tries /\ ~refresh'.called)]_vars
C20_Witness ==
    /\ pc = "returned"
    /\ resp.status = 404
    /\ tries = 3

\* C21: when the request for a page returns a response that is not 200,
\* paginate raises nothing and the run goes on: the page adds no record and no
\* page, and paginate returns the records of the pages fetched before it.
C21_FailedPageIsEmpty ==
    /\ [][(pc = "returned" /\ resp.status # 200)
              => (pc' = "main" /\ all_rows' = all_rows /\ served' = served)]_vars
    /\ []((pc = "main" /\ sent # NoRequest /\ resp.status # 200)
              => (/\ all_rows = DictRows(served)
                  /\ \A n \in 1..Len(served) : served[n].url # sent.url))
C21_Witness ==
    /\ pc = "main"
    /\ resp.status = 404
    /\ Len(served) = 2
    /\ Len(all_rows) = 2
    /\ sent.url = 3

\* C22: when the token refresh forced by a 401 fails, the call still waits at
\* least 1 s after the attempt's start and then raises the refresh error: it
\* returns nothing and makes no further attempt.
C22_RefreshErrorRaised ==
    /\ []((InCall /\ resp.status = 401 /\ refresh.raised)
              => (pc = "raised" /\ now - t0 >= 1 * Second))
    /\ [][pc # "raised"]_vars
C22_Witness ==
    /\ pc = "raised"
    /\ resp.status = 401
    /\ tries = 2
    /\ refresh.posted
    /\ now - t0 >= 1 * Second

\* C23: a token refresh that fails, for missing credentials or for an answer
\* other than 200, leaves the access token, the refresh token and expires_at as
\* they were (expires_at as an absolute time: its distance to now shrinks by the
\* time the step took).
C23_FailedRefreshChangesNothing ==
    [][refresh'.raised =>
          (/\ CLIO_ACCESS_TOKEN' = CLIO_ACCESS_TOKEN
           /\ CLIO_REFRESH_TOKEN' = CLIO_REFRESH_TOKEN
           /\ CLIO_EXPIRES_AT' =
                  ExpiryLater(CLIO_EXPIRES_AT,
                              IF pc = "paginate" THEN t0 - t0' ELSE now - t0'))]_vars
C23_Witness ==
    /\ refresh.raised
    /\ refresh.posted
    /\ CLIO_ACCESS_TOKEN # 0
    /\ CLIO_EXPIRES_AT > 0

====
